---- MODULE Spec2Model ----
(***************************************************************************)
(* Model of the sciagent rigor-enforcing execution engine:                 *)
(*   guardrails/scanner.py   CodeScanner (rules, rigor level, check)       *)
(*   guardrails/validator.py validate_data_integrity, SANITY_CHECK_HEADER  *)
(*   tools/session_log.py    SessionLog                                    *)
(*   tools/scripts.py        save_script, retrieve_session_log,            *)
(*                           save_reproducible_script                      *)
(*   tools/sandbox.py        execute_code                                  *)
(*                                                                         *)
(* A code text is a sequence of lines.  A Python None is the empty set and *)
(* a present value v is {v}, so that optional fields keep one type.        *)
(***************************************************************************)
EXTENDS Integers, Sequences, FiniteSets, TLC

VARIABLES
    rigor_level,      \* CodeScanner.rigor_level
    forbidden,        \* CodeScanner._forbidden : list of (pattern, message, severity)
    warnings,         \* CodeScanner._warnings  : list of (pattern, message, severity)
    entries,          \* SessionLog._entries
    loaded_files,     \* SessionLog._loaded_files
    script_exported,  \* SessionLog._script_exported
    output_dir,       \* ExecutionContext.output_dir (None or a directory)
    fs,               \* the file system: path -> text of the file
    now,              \* the wall clock (datetime.now()), in ticks
    figs,             \* matplotlib's global registry of open figures (plt.get_fignums())
    calls,            \* history: execute_code calls made since the last clear()
    executed,         \* history: those of them that got to run the code and returned
    last,             \* history: the last operation, its arguments and what it returned
    on_file_loaded,   \* ExecutionContext.on_file_loaded (None or a callback)
    session_queues,   \* figure_queue._session_queues : session id -> its Queue
    queue_items,      \* the Queue objects ever created: queue -> figures on it
    threads,          \* the threads inside figure_queue functions: where each is
    use_cache,        \* BaseDataResolver.use_cache
    max_cache_size,   \* BaseDataResolver.max_cache_size
    cache,            \* BaseDataResolver._cache : (key, value) in insertion order
    loader_calls      \* history: the paths the format loader was invoked with

queue_vars == <<session_queues, queue_items, threads>>
resolver_vars == <<use_cache, max_cache_size, cache, loader_calls>>

vars == <<rigor_level, forbidden, warnings, entries, loaded_files,
          script_exported, output_dir, fs, now, figs, calls, executed, last,
          on_file_loaded, queue_vars, resolver_vars>>

None == {}
Some(v) == {v}

(***************************************************************************)
(* Bounds                                                                  *)
(***************************************************************************)
MaxCalls == 2      \* execute_code calls between two clear()
MaxAdded == 1      \* rules added to the scanner's lists at run time
MaxTime == 2       \* the clock runs from tick 0 to tick MaxTime
TicksPerSecond == 2  \* clock ticks in one second of a file-name stamp
MaxBatch == 2      \* rules added to the scanner's lists by the batch calls
MaxLen == 3        \* elements of an array given to the validator
MaxQueues == 2     \* Queue objects created by register_session
MaxPushes == 2     \* figures on the queues or held by a thread
MaxCacheSize == 2  \* the largest max_cache_size a resolver is made with
MaxLoads == 4      \* invocations of the format loader

(***************************************************************************)
(* Code texts.  Each line stands for a line of Python.                     *)
(***************************************************************************)
CodePlain == <<"x = 1">>
CodeSeed == <<"np.random.seed(0)">>
CodeCrit == <<"Result = Expected">>
CodeBoth == <<"np.random.seed(0)", "Result = Expected">>
CodeCustom == <<"find_peaks(voltage)">>
CodeRaise == <<"print(1)", "raise ValueError">>
CodeExit == <<"raise SystemExit">>
CodeBad == <<"f(">>
CodeFig == <<"plt.figure()">>
CodeFigRaise == <<"plt.figure()", "raise ValueError">>
CodeSeedRaise == <<"np.random.seed(0)", "raise ValueError">>

CodeEval == <<"eval(x)">>
CodeShell == <<"subprocess.run(cmd)", "y = x.__class__">>
CodeBadEval == <<"eval(x)", "f(">>

Codes == {CodePlain, CodeSeed, CodeCrit, CodeBoth, CodeCustom, CodeRaise,
          CodeExit, CodeBad, CodeFig, CodeFigRaise}

\* str.lower(), as re.IGNORECASE folds the text
Lower(line) == IF line = "Result = Expected" THEN "result = expected" ELSE line

(***************************************************************************)
(* guardrails/scanner.py                                                   *)
(***************************************************************************)
CRITICAL == "critical"
WARNING == "warning"

STRICT == "strict"
STANDARD == "standard"
RELAXED == "relaxed"
BYPASS == "bypass"
RigorLevel == {STRICT, STANDARD, RELAXED, BYPASS}

\* Each entry is <<regex, message, severity>>; the regex is named, the
\* lines it finds a match in are given by PatternLines.
DEFAULT_FORBIDDEN_PATTERNS ==
    << <<"np.random.(rand|randn|random|uniform|normal|choice)(", "Random/synthetic data generation detected", WARNING>>,
       <<"random.(random|uniform|gauss|choice)(", "Random data generation detected", WARNING>>,
       <<"fake|dummy|synthetic|simulated", "Code references fake/synthetic data", WARNING>>,
       <<"if.*p.?value.*[<>].*0.05.*:.*=", "Conditional result modification based on p-value detected", CRITICAL>>,
       <<"result\\s*=\\s*(expected|hypothesis|target)", "Result forced to match expected/hypothesis value", CRITICAL>>,
       <<"#.*hack|#.*fudge|#.*fake", "Code contains suspicious comments", WARNING>>,
       <<"subprocess.(run|Popen|call|check_output|check_call)(", "Shell subprocess execution detected", WARNING>>,
       <<"os.(system|popen|exec[lv]?[pe]?)(", "OS-level command execution detected", WARNING>>,
       <<"powershell|cmd.exe|/bin/(ba)?sh", "Direct shell invocation detected", WARNING>> >>

DEFAULT_WARNING_PATTERNS ==
    << <<"np.random.seed", "Random seed set", WARNING>>,
       <<"outlier.*remove|remove.*outlier", "Outlier removal detected", WARNING>>,
       <<"exclude|skip|ignore", "Data exclusion detected", WARNING>> >>

\* the rules a domain agent adds (add_forbidden / add_warning)
CustomPattern == "find_peaks\\s*\\(\\s*voltage"
CustomMessage == "Use detect_spikes tool instead"

\* The lower-cased lines in which re.search finds the pattern.
PatternLines(pattern) ==
    CASE pattern = "result\\s*=\\s*(expected|hypothesis|target)" -> {"result = expected"}
      [] pattern = "np.random.seed" -> {"np.random.seed(0)"}
      [] pattern = CustomPattern -> {"find_peaks(voltage)"}
      [] OTHER -> {}

\* re.search(pattern, code, re.IGNORECASE)
re_search(pattern, code) ==
    \E i \in DOMAIN code : Lower(code[i]) \in PatternLines(pattern)

\* classify with RELAXED blocking CRITICAL matches as STANDARD does
classify_relaxed_blocks(severity) ==
    CASE rigor_level = STRICT -> "violations"
      [] rigor_level = STANDARD ->
            IF severity = CRITICAL THEN "violations" ELSE "needs_confirmation"
      [] rigor_level = RELAXED ->
            IF severity = CRITICAL THEN "violations" ELSE "warnings"
      [] OTHER -> "none"

\* classify with STRICT routing by severity as RELAXED does
classify_strict_as_relaxed(severity) ==
    CASE rigor_level = STANDARD ->
            IF severity = CRITICAL THEN "violations" ELSE "needs_confirmation"
      [] rigor_level \in {STRICT, RELAXED} ->
            IF severity = CRITICAL THEN "needs_confirmation" ELSE "warnings"
      [] OTHER -> "none"

\* classify with STRICT routing by severity as STANDARD does
classify_strict_as_standard(severity) ==
    CASE rigor_level = STRICT ->
            IF severity = CRITICAL THEN "violations" ELSE "needs_confirmation"
      [] rigor_level = STANDARD ->
            IF severity = CRITICAL THEN "violations" ELSE "needs_confirmation"
      [] rigor_level = RELAXED ->
            IF severity = CRITICAL THEN "needs_confirmation" ELSE "warnings"
      [] OTHER -> "none"

\* classify with STANDARD routing WARNING matches as RELAXED does
classify_warning_passes(severity) ==
    CASE rigor_level = STRICT -> "violations"
      [] rigor_level = STANDARD ->
            IF severity = CRITICAL THEN "violations" ELSE "warnings"
      [] rigor_level = RELAXED ->
            IF severity = CRITICAL THEN "needs_confirmation" ELSE "warnings"
      [] OTHER -> "none"

\* CodeScanner._classify: the bucket a matching rule's message goes to
classify(severity) ==
    CASE rigor_level = STRICT -> "violations"
      [] rigor_level = STANDARD ->
            IF severity = CRITICAL THEN "violations" ELSE "needs_confirmation"
      [] rigor_level = RELAXED ->
            IF severity = CRITICAL THEN "needs_confirmation" ELSE "warnings"
      [] OTHER -> "none"

RECURSIVE Bucket(_, _)
\* the messages of the rules of `rules` (in order) routed to `bucket`
Bucket(rules, bucket) ==
    IF rules = <<>> THEN <<>>
    ELSE IF classify(Head(rules)[3]) = bucket
         THEN <<Head(rules)[2]>> \o Bucket(Tail(rules), bucket)
         ELSE Bucket(Tail(rules), bucket)

\* check with BYPASS silencing only the WARNING rules
check_bypass_keeps_critical(code) ==
    LET all_patterns == forbidden \o warnings
        matched == SelectSeq(all_patterns, LAMBDA r : re_search(r[1], code))
        critical == SelectSeq(matched, LAMBDA r : r[3] = CRITICAL)
        violations == IF rigor_level = BYPASS
                      THEN [i \in DOMAIN critical |-> critical[i][2]]
                      ELSE Bucket(matched, "violations")
    IN [passed |-> Len(violations) = 0,
        violations |-> violations,
        needs_confirmation |-> Bucket(matched, "needs_confirmation"),
        warnings |-> Bucket(matched, "warnings")]

\* CodeScanner.check
check(code) ==
    IF rigor_level = BYPASS
    THEN [passed |-> TRUE, violations |-> <<>>, needs_confirmation |-> <<>>,
          warnings |-> <<>>]
    ELSE LET all_patterns == forbidden \o warnings
             matched == SelectSeq(all_patterns, LAMBDA r : re_search(r[1], code))
             violations == Bucket(matched, "violations")
         IN [passed |-> Len(violations) = 0,
             violations |-> violations,
             needs_confirmation |-> Bucket(matched, "needs_confirmation"),
             warnings |-> Bucket(matched, "warnings")]

(***************************************************************************)
(* guardrails/validator.py                                                 *)
(* An array is a sequence of elements "0", "0.1", "1", "2", "nan", "inf".  *)
(***************************************************************************)
Count(arr, S) == Cardinality({i \in DOMAIN arr : arr[i] \in S})

\* The float64 mean of n copies of v is v again: the sum of n copies of a
\* small integer is exact, that of 3 or 6 copies of 0.1 is not
\* ((0.1 + 0.1 + 0.1) / 3 = 0.10000000000000002).
MeanRoundsBack(v, n) == ~(v = "0.1" /\ n \in {3, 6})

\* np.std(clean) == 0: sqrt(mean(|x - mean(x)|^2)) is 0 exactly when every
\* element equals the computed mean
std_is_zero(clean) ==
    /\ \A i \in DOMAIN clean : clean[i] = clean[1]
    /\ MeanRoundsBack(clean[1], Len(clean))

\* validate_data_integrity calling more than half NaN what is half or more
validate_data_integrity_half(arr) ==
    LET size == Len(arr)
        nan_count == Count(arr, {"nan"})
        inf_count == Count(arr, {"inf"})
        clean == SelectSeq(arr, LAMBDA x : x \notin {"nan", "inf"})
        nan_issue == IF nan_count > 0 /\ 100 * nan_count >= 50 * size
                     THEN <<"NaN values - data may be corrupted">> ELSE <<>>
        nan_warn == IF nan_count > 0 /\ ~(100 * nan_count >= 50 * size)
                    THEN <<"NaN values detected">> ELSE <<>>
        inf_issue == IF inf_count > 0 THEN <<"Inf values detected">> ELSE <<>>
        var_issue == IF Len(clean) > 0 /\ std_is_zero(clean)
                     THEN <<"Zero variance">> ELSE <<>>
        zero_issue == IF \A i \in DOMAIN arr : arr[i] = "0"
                      THEN <<"All zeros">> ELSE <<>>
        issues == nan_issue \o inf_issue \o var_issue \o zero_issue
    IN [valid |-> Len(issues) = 0, issues |-> issues, warnings |-> nan_warn]

\* validate_data_integrity: valid, issues, warnings (stats are not modelled)
validate_data_integrity(arr) ==
    LET size == Len(arr)
        nan_count == Count(arr, {"nan"})
        inf_count == Count(arr, {"inf"})
        clean == SelectSeq(arr, LAMBDA x : x \notin {"nan", "inf"})
        \* nan_pct > 50 with nan_pct = 100 * nan_count / size
        nan_issue == IF nan_count > 0 /\ 100 * nan_count > 50 * size
                     THEN <<"NaN values - data may be corrupted">> ELSE <<>>
        nan_warn == IF nan_count > 0 /\ ~(100 * nan_count > 50 * size)
                    THEN <<"NaN values detected">> ELSE <<>>
        inf_issue == IF inf_count > 0 THEN <<"Inf values detected">> ELSE <<>>
        \* len(clean) > 0 and np.std(clean) == 0
        var_issue == IF Len(clean) > 0 /\ std_is_zero(clean)
                     THEN <<"Zero variance">> ELSE <<>>
        \* np.all(arr == 0)
        zero_issue == IF \A i \in DOMAIN arr : arr[i] = "0"
                      THEN <<"All zeros">> ELSE <<>>
        issues == nan_issue \o inf_issue \o var_issue \o zero_issue
    IN [valid |-> Len(issues) = 0, issues |-> issues, warnings |-> nan_warn]

\* Code block auto-injected into sandbox executions
SANITY_CHECK_HEADER == <<"# === AUTO-INJECTED SANITY CHECKS ===">>

\* A context is an ordered map: a sequence of <<key, value>>; a value is
\* [kind, data], kind "ndarray" for a numpy array.
ndarray(data) == [kind |-> "ndarray", data |-> data]
CtxNone == <<>>
CtxGood == << <<"dataY", ndarray(<<"1", "2">>)>> >>
CtxNaN == << <<"dataY", ndarray(<<"1", "2", "nan">>)>> >>
CtxZeros == << <<"n", [kind |-> "int", data |-> <<"0">>]>>,
               <<"dataY", ndarray(<<"0", "0">>)>> >>
\* a plain Python list (what a JSON tool call carries), not an ndarray
CtxList == << <<"dataY", [kind |-> "list", data |-> <<"0", "0">>]>> >>
\* a valid array followed by one that is mostly NaN
CtxLate == << <<"dataX", ndarray(<<"1", "2">>)>>,
              <<"dataY", ndarray(<<"nan", "nan", "1">>)>> >>
Contexts == {CtxNone, CtxGood, CtxNaN, CtxZeros, CtxList, CtxLate}

(***************************************************************************)
(* tools/session_log.py                                                    *)
(***************************************************************************)
NoError == <<"", <<>>>>

\* record numbering the steps from 0
record_zero_based(code, success, error, description) ==
    Append(entries, [step |-> Len(entries), timestamp |-> now, code |-> code,
                     success |-> success, error |-> error,
                     description |-> description])

\* record keeping only the latest step
record_overwrites(code, success, error, description) ==
    <<[step |-> 1, timestamp |-> now, code |-> code, success |-> success,
       error |-> error, description |-> description]>>

\* SessionLog.record: the entries after the call
record(code, success, error, description) ==
    Append(entries, [step |-> Len(entries) + 1,
                     timestamp |-> now,
                     code |-> code,
                     success |-> success,
                     error |-> error,
                     description |-> description])

\* Path(file_path).resolve()
resolve(file_path) ==
    IF file_path = "/data/./a.abf" THEN "/data/a.abf" ELSE file_path

\* record_file_load looking for the path as given, not the canonical one
record_file_load_raw(file_path) ==
    IF \E i \in DOMAIN loaded_files : loaded_files[i] = file_path
    THEN loaded_files
    ELSE Append(loaded_files, resolve(file_path))

\* SessionLog.record_file_load: the loaded files after the call
record_file_load(file_path) ==
    LET canonical == resolve(file_path)
    IN IF \E i \in DOMAIN loaded_files : loaded_files[i] = canonical
       THEN loaded_files
       ELSE Append(loaded_files, canonical)

has_entries == Len(entries) > 0

\* summary counting only the successful steps as steps
summary_counts_successes ==
    [total_steps |-> Cardinality({i \in DOMAIN entries : entries[i].success}),
     successful_steps |-> Cardinality({i \in DOMAIN entries : entries[i].success}),
     failed_steps |-> Cardinality({i \in DOMAIN entries : ~entries[i].success}),
     loaded_files |-> loaded_files,
     script_exported |-> script_exported]

\* summary counting every execute_code call as a step
summary_counts_calls ==
    [total_steps |-> calls,
     successful_steps |-> Cardinality({i \in DOMAIN entries : entries[i].success}),
     failed_steps |-> Cardinality({i \in DOMAIN entries : ~entries[i].success}),
     loaded_files |-> loaded_files,
     script_exported |-> script_exported]

\* SessionLog.summary
summary ==
    [total_steps |-> Len(entries),
     successful_steps |-> Cardinality({i \in DOMAIN entries : entries[i].success}),
     failed_steps |-> Cardinality({i \in DOMAIN entries : ~entries[i].success}),
     loaded_files |-> loaded_files,
     script_exported |-> script_exported]

(***************************************************************************)
(* tools/scripts.py                                                        *)
(***************************************************************************)
HashSpace == 16777216   \* six hexadecimal digits

LineCode(line) ==
    CASE line = "x = 1" -> 1
      [] line = "np.random.seed(0)" -> 2
      [] line = "Result = Expected" -> 3
      [] line = "find_peaks(voltage)" -> 4
      [] line = "print(1)" -> 5
      [] line = "raise ValueError" -> 6
      [] line = "raise SystemExit" -> 7
      [] line = "f(" -> 8
      [] line = "plt.figure()" -> 9
      [] OTHER -> 10

RECURSIVE Digest(_, _)
Digest(code, h) ==
    IF code = <<>> THEN h
    ELSE Digest(Tail(code), (31 * h + LineCode(Head(code))) % HashSpace)

\* hashlib.md5(code.encode()).hexdigest()[:6]
short_hash(code) == Digest(code, 7)

\* datetime.now().strftime("%Y%m%d_%H%M%S")
stamp == now \div TicksPerSecond

\* write_text opening the file for appending
write_text_appends(dest, text) ==
    [p \in DOMAIN fs \cup {dest} |->
        IF p = dest THEN (IF dest \in DOMAIN fs THEN fs[dest] \o text ELSE text)
        ELSE fs[p]]

\* Path.write_text: the file system after writing `text` to `dest`
write_text(dest, text) ==
    [p \in DOMAIN fs \cup {dest} |-> IF p = dest THEN text ELSE fs[p]]

\* script_dest naming the file by the content hash alone
script_dest_hash_only(code, d) == <<d, "scripts", <<"script", 0, short_hash(code)>>>>

\* the archive file of `code` under directory d
script_dest(code, d) == <<d, "scripts", <<"script", stamp, short_hash(code)>>>>

\* save_script ignoring its output_dir argument for the context's directory
save_script_context_only(code, dir) ==
    IF output_dir = None THEN fs
    ELSE write_text(script_dest(code, CHOOSE d \in output_dir : TRUE), code)

\* save_script: the file system after archiving `code` under `dir`
save_script(code, dir) ==
    IF dir = None THEN fs
    ELSE write_text(script_dest(code, CHOOSE d \in dir : TRUE), code)

\* the syntax check left out
parses_always(code) == TRUE

\* ast.parse(code) succeeds
parses(code) == \A i \in DOMAIN code : code[i] # "f("

\* the directory a call resolves: its output_dir argument, else the context's
resolved_out(out_arg) == IF out_arg # None THEN out_arg ELSE output_dir

ScriptFiles == {p \in DOMAIN fs : p[2] = "scripts"}

(***************************************************************************)
(* exec(code, exec_globals, exec_locals)                                   *)
(***************************************************************************)
NextFig(open) == IF open = {} THEN 1
                 ELSE 1 + CHOOSE n \in open : \A m \in open : m <= n

RECURSIVE Interpret(_, _, _)
\* runs the lines in order: what was printed and which figures are open
\* when the text ends or a line raises
Interpret(code, out, open) ==
    IF code = <<>> THEN [raised |-> None, output |-> out, figs |-> open]
    ELSE CASE Head(code) = "raise ValueError" ->
                [raised |-> Some("ValueError"), output |-> out, figs |-> open]
           [] Head(code) = "raise SystemExit" ->
                [raised |-> Some("SystemExit"), output |-> out, figs |-> open]
           [] Head(code) = "print(1)" ->
                Interpret(Tail(code), Append(out, "1"), open)
           [] Head(code) = "plt.figure()" ->
                Interpret(Tail(code), out, open \cup {NextFig(open)})
           [] OTHER -> Interpret(Tail(code), out, open)

\* exec compiles the whole text first: a text that does not parse raises
\* SyntaxError before any line runs
exec(code) ==
    IF ~parses(code)
    THEN [raised |-> Some("SyntaxError"), output |-> <<>>, figs |-> figs]
    ELSE Interpret(code, <<>>, figs)

\* the exceptions `except Exception` catches (SystemExit is a BaseException)
IsException(name) == name \in {"ValueError", "SyntaxError"}

(***************************************************************************)
(* tools/figures.py                                                        *)
(***************************************************************************)
RECURSIVE SetToSeq(_)
\* plt.get_fignums(): the open figure numbers in increasing order
SetToSeq(S) ==
    IF S = {} THEN <<>>
    ELSE LET m == CHOOSE n \in S : \A k \in S : n <= k
         IN <<m>> \o SetToSeq(S \ {m})

\* _save_figure for every open figure: written only if the file is not there
save_figures(files, open, dir) ==
    IF dir = None THEN files
    ELSE LET d == CHOOSE x \in dir : TRUE
             new == {<<d, ".", <<"figure", n, stamp>>>> : n \in open}
         IN [p \in DOMAIN files \cup new |->
                IF p \in DOMAIN files THEN files[p] ELSE <<"png">>]

(***************************************************************************)
(* tools/sandbox.py : validate_code                                        *)
(***************************************************************************)
\* what the walk over the syntax tree reports for the nodes of a line
DangerWarnings(line) ==
    CASE line = "eval(x)" -> <<"Potentially dangerous call: eval()">>
      [] line = "subprocess.run(cmd)" -> <<"BLOCKED: subprocess.run()">>
      [] line = "y = x.__class__" -> <<"Accessing special attribute: __class__">>
      [] OTHER -> <<>>

RECURSIVE WalkWarnings(_)
WalkWarnings(code) ==
    IF code = <<>> THEN <<>>
    ELSE DangerWarnings(Head(code)) \o WalkWarnings(Tail(code))

\* validate_code rejecting code that makes a dangerous call
validate_code_rejects_danger(code) ==
    IF ~parses(code)
    THEN [valid |-> FALSE, errors |-> <<"Syntax error">>, warnings |-> <<>>]
    ELSE [valid |-> WalkWarnings(code) = <<>>, errors |-> WalkWarnings(code),
          warnings |-> <<>>]

\* validate_code
validate_code(code) ==
    IF ~parses(code)
    THEN [valid |-> FALSE, errors |-> <<"Syntax error">>, warnings |-> <<>>]
    ELSE [valid |-> TRUE, errors |-> <<>>, warnings |-> WalkWarnings(code)]

(***************************************************************************)
(* tools/sandbox.py : execute_code                                         *)
(***************************************************************************)
\* rigor_gate with confirmed=true skipping the whole rigor check
rigor_gate_confirmed_skips(code, confirmed, enforce_rigor) ==
    IF ~enforce_rigor \/ confirmed THEN "pass"
    ELSE IF ~check(code).passed THEN "violation"
    ELSE IF Len(check(code).needs_confirmation) > 0 THEN "pending"
    ELSE "pass"

\* rigor_gate honouring confirmed=true only right after a pending result
\* for the same code (a server-side pending state)
rigor_gate_pending_state(code, confirmed, enforce_rigor) ==
    LET pending == /\ last.call.op = "execute_code"
                   /\ last.call.code = code
                   /\ \E r \in last.result : r.needs_confirmation # None
    IN IF ~enforce_rigor THEN "pass"
       ELSE IF ~check(code).passed THEN "violation"
       ELSE IF Len(check(code).needs_confirmation) > 0 /\ ~(confirmed /\ pending)
            THEN "pending"
       ELSE "pass"

\* the rigor check: "violation", "pending" or "pass"
rigor_gate(code, confirmed, enforce_rigor) ==
    IF ~enforce_rigor THEN "pass"
    ELSE IF ~check(code).passed THEN "violation"
    ELSE IF Len(check(code).needs_confirmation) > 0 /\ ~confirmed THEN "pending"
    ELSE "pass"

\* the loop dropping the validator's verdict
integrity_gate_never_blocks(context, warns) ==
    [valid |-> TRUE, issues |-> <<>>, warnings |-> warns]

RECURSIVE integrity_gate(_, _)
\* the loop over context.items(): stops at the first invalid array
integrity_gate(context, warns) ==
    IF context = <<>> THEN [valid |-> TRUE, issues |-> <<>>, warnings |-> warns]
    ELSE LET value == Head(context)[2]
         IN IF value.kind # "ndarray" THEN integrity_gate(Tail(context), warns)
            ELSE LET integrity == validate_data_integrity(value.data)
                 IN IF ~integrity.valid
                    THEN [valid |-> FALSE, issues |-> integrity.issues,
                          warnings |-> warns]
                    ELSE integrity_gate(Tail(context), warns \o integrity.warnings)

\* the preamble is never prepended
prepared_never_injects(code, inject_sanity_checks) == code

\* the text that is archived, executed and logged
prepared(code, inject_sanity_checks) ==
    IF inject_sanity_checks THEN SANITY_CHECK_HEADER \o code ELSE code

Call(code, context, confirmed, enforce_rigor, inject_sanity_checks, out_arg) ==
    [op |-> "execute_code", code |-> code, context |-> context,
     confirmed |-> confirmed, enforce_rigor |-> enforce_rigor,
     inject_sanity_checks |-> inject_sanity_checks, out_arg |-> out_arg]

\* a call that returns before the code is archived or run
Blocked(call, result) ==
    /\ last' = [call |-> call, result |-> Some(result), ran |-> FALSE,
                archive |-> None, raised |-> None]
    /\ UNCHANGED <<on_file_loaded, queue_vars, resolver_vars, entries, fs, figs, executed>>

ExecuteCode(code, context, confirmed, enforce_rigor, inject_sanity_checks, out_arg) ==
    LET call == Call(code, context, confirmed, enforce_rigor,
                     inject_sanity_checks, out_arg)
        rigor_check == check(code)
        gate == rigor_gate(code, confirmed, enforce_rigor)
        scan_warnings == IF enforce_rigor THEN rigor_check.warnings ELSE <<>>
        integrity == integrity_gate(context, scan_warnings)
        rigor_warnings == integrity.warnings
        text == prepared(code, inject_sanity_checks)
        dir == resolved_out(out_arg)
        archived == save_script(text, dir)
        run == exec(text)
        caught == run.raised # None /\ \A e \in run.raised : IsException(e)
        escaped == run.raised # None /\ ~caught
        success == run.raised = None
        captured == IF success THEN SetToSeq(run.figs) ELSE <<>>
    IN
    /\ calls < MaxCalls
    /\ calls' = calls + 1
    /\ UNCHANGED <<on_file_loaded, queue_vars, resolver_vars, rigor_level, forbidden, warnings, loaded_files,
                   script_exported, output_dir, now>>
    /\ CASE gate = "violation" ->
              Blocked(call,
                  [success |-> FALSE, needs_confirmation |-> None, output |-> <<>>,
                   error |-> Some(<<"SCIENTIFIC RIGOR VIOLATION", rigor_check.violations>>),
                   figures |-> <<>>,
                   rigor_warnings |-> Some(rigor_check.violations),
                   message |-> None])
         [] gate = "pending" ->
              Blocked(call,
                  [success |-> FALSE, needs_confirmation |-> Some(TRUE), output |-> <<>>,
                   error |-> None,
                   figures |-> <<>>,
                   rigor_warnings |-> Some(rigor_check.needs_confirmation),
                   message |-> Some(<<"RIGOR WARNING: re-call execute_code with confirmed=True",
                                      rigor_check.needs_confirmation>>)])
         [] gate = "pass" /\ ~integrity.valid ->
              Blocked(call,
                  [success |-> FALSE, needs_confirmation |-> None, output |-> <<>>,
                   error |-> Some(<<"DATA INTEGRITY ISSUE", integrity.issues>>),
                   figures |-> <<>>,
                   rigor_warnings |-> Some(integrity.issues),
                   message |-> None])
         [] OTHER ->
              /\ fs' = IF success THEN save_figures(archived, run.figs, dir)
                       ELSE archived
              /\ figs' = IF success THEN {} ELSE run.figs
              /\ executed' = IF escaped THEN executed ELSE executed + 1
              /\ entries' = IF escaped THEN entries
                            ELSE record(text, success,
                                        IF success THEN NoError
                                        ELSE <<CHOOSE e \in run.raised : TRUE,
                                               <<"traceback">>>>,
                                        "")
              /\ last' = [call |-> call,
                          result |-> IF escaped THEN None
                                     ELSE Some(
                            [success |-> success,
                             needs_confirmation |-> None,
                             output |-> run.output,
                             error |-> IF success THEN None
                                       ELSE Some(<<CHOOSE e \in run.raised : TRUE,
                                                   <<"traceback">>>>),
                             figures |-> captured,
                             rigor_warnings |-> IF rigor_warnings = <<>> THEN None
                                                ELSE Some(rigor_warnings),
                             message |-> None]),
                          ran |-> TRUE,
                          archive |-> IF dir = None THEN None
                                      ELSE Some(script_dest(text, CHOOSE d \in dir : TRUE)),
                          raised |-> IF escaped THEN run.raised ELSE None]

(***************************************************************************)
(* The record of an operation that returns without running code          *)
(***************************************************************************)
Other(call, result) ==
    [call |-> call, result |-> Some(result), ran |-> FALSE, archive |-> None,
     raised |-> None]

(***************************************************************************)
(* tools/code_tools.py : the legacy execute_code                           *)
(***************************************************************************)
\* the rigor check of the legacy function: "violation" or "pass"
legacy_rigor_gate(code, enforce_rigor) ==
    IF ~enforce_rigor THEN "pass"
    ELSE IF ~check(code).passed THEN "violation"
    ELSE "pass"

\* code_tools.execute_code.  Its scanner is the module's, here with the
\* rules and the level of the context's; the module's _output_dir is None,
\* as it is until set_output_dir is called.  Nothing is logged.
LegacyExecuteCode(code, context, enforce_rigor, inject_sanity_checks, out_arg) ==
    LET call == [op |-> "code_tools.execute_code", code |-> code,
                 context |-> context, enforce_rigor |-> enforce_rigor,
                 inject_sanity_checks |-> inject_sanity_checks,
                 out_arg |-> out_arg]
        rigor_check == check(code)
        gate == legacy_rigor_gate(code, enforce_rigor)
        scan_warnings == IF enforce_rigor THEN rigor_check.warnings ELSE <<>>
        integrity == integrity_gate(context, scan_warnings)
        rigor_warnings == integrity.warnings
        text == prepared(code, inject_sanity_checks)
        archived == save_script(text, out_arg)
        run == exec(text)
        caught == run.raised # None /\ \A e \in run.raised : IsException(e)
        escaped == run.raised # None /\ ~caught
        success == run.raised = None
    IN
    /\ calls < MaxCalls
    /\ calls' = calls + 1
    /\ UNCHANGED <<on_file_loaded, queue_vars, resolver_vars, rigor_level,
                   forbidden, warnings, entries, loaded_files, script_exported,
                   output_dir, now, executed>>
    /\ CASE gate = "violation" ->
              /\ last' = Other(call,
                    [success |-> FALSE, output |-> <<>>,
                     error |-> Some(<<"SCIENTIFIC RIGOR VIOLATION", rigor_check.violations>>),
                     figures |-> <<>>,
                     rigor_warnings |-> Some(rigor_check.violations)])
              /\ UNCHANGED <<fs, figs>>
         [] gate = "pass" /\ ~integrity.valid ->
              /\ last' = Other(call,
                    [success |-> FALSE, output |-> <<>>,
                     error |-> Some(<<"DATA INTEGRITY ISSUE", integrity.issues>>),
                     figures |-> <<>>,
                     rigor_warnings |-> Some(integrity.issues)])
              /\ UNCHANGED <<fs, figs>>
         [] OTHER ->
              /\ fs' = archived
              /\ figs' = IF success THEN {} ELSE run.figs
              /\ last' = [call |-> call,
                          result |-> IF escaped THEN None
                                     ELSE Some(
                            [success |-> success,
                             output |-> run.output,
                             error |-> IF success THEN None
                                       ELSE Some(<<CHOOSE e \in run.raised : TRUE,
                                                   <<"traceback">>>>),
                             figures |-> IF success THEN SetToSeq(run.figs) ELSE <<>>,
                             rigor_warnings |-> IF rigor_warnings = <<>> THEN None
                                                ELSE Some(rigor_warnings)]),
                          ran |-> TRUE,
                          archive |-> IF out_arg = None THEN None
                                      ELSE Some(script_dest(text, CHOOSE d \in out_arg : TRUE)),
                          raised |-> IF escaped THEN run.raised ELSE None]

(***************************************************************************)
(* tools/scripts.py : retrieve_session_log                                 *)
(***************************************************************************)
\* retrieve_session_log without the branch for a log with no entries
retrieve_without_empty_case ==
    [summary |-> summary, entries |-> entries, message |-> None]

retrieve_session_log ==
    IF ~has_entries
    THEN [summary |-> [total_steps |-> 0, successful_steps |-> 0,
                       failed_steps |-> 0, loaded_files |-> <<>>],
          entries |-> <<>>,
          message |-> Some("No code has been executed in this session yet.")]
    ELSE [summary |-> summary, entries |-> entries, message |-> None]

Retrieve ==
    /\ last' = Other([op |-> "retrieve_session_log"], retrieve_session_log)
    /\ UNCHANGED <<on_file_loaded, queue_vars, resolver_vars, rigor_level, forbidden, warnings, entries, loaded_files,
                   script_exported, output_dir, fs, now, figs, calls, executed>>

\* the file a curated script is exported to
export_dest(filename, d) == <<d, ".", <<filename>>>>

\* save_reproducible_script writing the flag from the call's success
SaveReproducibleScript_flag_follows(code, filename, out_arg) ==
    LET call == [op |-> "save_reproducible_script", code |-> code,
                 filename |-> filename, out_arg |-> out_arg, before |-> None]
        target_dir == resolved_out(out_arg)
        ok == parses(code) /\ target_dir # None
        dest == export_dest(filename, CHOOSE d \in target_dir : TRUE)
    IN
    /\ UNCHANGED <<on_file_loaded, queue_vars, resolver_vars, rigor_level, forbidden, warnings, entries, loaded_files,
                   output_dir, now, figs, calls, executed>>
    /\ fs' = IF ok THEN write_text(dest, code) ELSE fs
    /\ script_exported' = ok
    /\ last' = Other(call, [success |-> ok,
                            path |-> IF ok THEN Some(dest) ELSE None,
                            message |-> "saved or not"])

SaveReproducibleScript(code, filename, out_arg) ==
    LET c == [op |-> "save_reproducible_script", code |-> code,
              filename |-> filename, out_arg |-> out_arg, before |-> None]
        target_dir == resolved_out(out_arg)
        dest == export_dest(filename, CHOOSE d \in target_dir : TRUE)
        \* history: the text of the file when the call was made
        before == IF target_dir # None /\ dest \in DOMAIN fs
                  THEN Some(fs[dest]) ELSE None
        call == [c EXCEPT !.before = before]
    IN
    /\ UNCHANGED <<on_file_loaded, queue_vars, resolver_vars, rigor_level, forbidden, warnings, entries, loaded_files,
                   output_dir, now, figs, calls, executed>>
    /\ IF ~parses(code)
       THEN /\ last' = Other(call, [success |-> FALSE, path |-> None,
                                    message |-> "Script has a syntax error"])
            /\ UNCHANGED <<on_file_loaded, queue_vars, resolver_vars, fs, script_exported>>
       ELSE IF target_dir = None
       THEN /\ last' = Other(call, [success |-> FALSE, path |-> None,
                                    message |-> "No output directory configured."])
            /\ UNCHANGED <<on_file_loaded, queue_vars, resolver_vars, fs, script_exported>>
       ELSE /\ fs' = write_text(dest, code)
            /\ script_exported' = TRUE
            /\ last' = Other(call, [success |-> TRUE, path |-> Some(dest),
                                    message |-> "Reproducible script saved"])

(***************************************************************************)
(* The other operations on the context                                     *)
(***************************************************************************)
\* SessionLog.clear, as BaseScientificAgent.create_session calls it
Clear ==
    /\ entries' = <<>>
    /\ loaded_files' = <<>>
    /\ script_exported' = FALSE
    /\ calls' = 0
    /\ executed' = 0
    /\ last' = Other([op |-> "clear"], [success |-> TRUE])
    /\ UNCHANGED <<on_file_loaded, queue_vars, resolver_vars, rigor_level, forbidden, warnings, output_dir, fs, now, figs>>

\* The callbacks a context is given: the one create_session installs, and
\* one that raises whenever it is called.
update_working_dir_from_file == "update_working_dir_from_file"
failing_callback == "failing_callback"
Hooks == {None, Some(update_working_dir_from_file), Some(failing_callback)}

\* What a call of the callback does: whether it raised, and the context's
\* output_dir after it.  update_working_dir_from_file leaves a directory the
\* user specified, else sets the directory next to the file or a temporary
\* one; resolve_working_dir raises OSError when neither can be made.
HookOutcomes(hook) ==
    IF hook = failing_callback
    THEN {[raised |-> Some("ValueError"), dir |-> output_dir]}
    ELSE {[raised |-> None, dir |-> output_dir],
          [raised |-> None, dir |-> Some("data/agent_output")],
          [raised |-> None, dir |-> Some("tmp/agent_")],
          [raised |-> Some("OSError"), dir |-> output_dir]}

\* notify_file_loaded invoking the callback before it records the path, an
\* exception of the callback ending the call
NotifyFileLoaded_hook_first(file_path) ==
    /\ \/ /\ on_file_loaded = None
          /\ loaded_files' = record_file_load(file_path)
          /\ output_dir' = output_dir
          /\ last' = Other([op |-> "notify_file_loaded", file_path |-> file_path],
                           [success |-> TRUE, hook |-> None])
       \/ \E hook \in on_file_loaded : \E outcome \in HookOutcomes(hook) :
             /\ loaded_files' = IF outcome.raised = None
                                THEN record_file_load(file_path)
                                ELSE loaded_files
             /\ output_dir' = outcome.dir
             /\ last' = Other([op |-> "notify_file_loaded", file_path |-> file_path],
                              [success |-> TRUE,
                               hook |-> Some([called_with |-> file_path,
                                              loaded_files |-> loaded_files,
                                              raised |-> outcome.raised])])
    /\ UNCHANGED <<on_file_loaded, queue_vars, resolver_vars, rigor_level,
                   forbidden, warnings, entries, script_exported, fs, now,
                   figs, calls, executed>>

\* ExecutionContext.notify_file_loaded: the path is recorded, then the
\* callback, if one is set, is called inside try / except Exception.  The
\* result notes what the callback was called with, the loaded files it could
\* see, and what it raised.
NotifyFileLoaded(file_path) ==
    /\ loaded_files' = record_file_load(file_path)
    /\ \/ /\ on_file_loaded = None
          /\ output_dir' = output_dir
          /\ last' = Other([op |-> "notify_file_loaded", file_path |-> file_path],
                           [success |-> TRUE, hook |-> None])
       \/ \E hook \in on_file_loaded : \E outcome \in HookOutcomes(hook) :
             /\ output_dir' = outcome.dir
             /\ last' = Other([op |-> "notify_file_loaded", file_path |-> file_path],
                              [success |-> TRUE,
                               hook |-> Some([called_with |-> file_path,
                                              loaded_files |-> record_file_load(file_path),
                                              raised |-> outcome.raised])])
    /\ UNCHANGED <<on_file_loaded, queue_vars, resolver_vars, rigor_level,
                   forbidden, warnings, entries, script_exported, fs, now,
                   figs, calls, executed>>

\* BaseScientificAgent.create_session: the log is cleared and the callback
\* installed
CreateSession ==
    /\ entries' = <<>>
    /\ loaded_files' = <<>>
    /\ script_exported' = FALSE
    /\ calls' = 0
    /\ executed' = 0
    /\ on_file_loaded' = Some(update_working_dir_from_file)
    /\ last' = Other([op |-> "create_session"], [success |-> TRUE])
    /\ UNCHANGED <<queue_vars, resolver_vars, rigor_level, forbidden, warnings,
                   output_dir, fs, now, figs>>

\* api_set_rigor: ctx.scanner.rigor_level = RigorLevel.from_str(level_str)
SetRigor(level) ==
    /\ rigor_level' = level
    /\ last' = Other([op |-> "set_rigor", level |-> level], [success |-> TRUE])
    /\ UNCHANGED <<on_file_loaded, queue_vars, resolver_vars, forbidden, warnings, entries, loaded_files, script_exported,
                   output_dir, fs, now, figs, calls, executed>>

\* CodeScanner.add_forbidden
AddForbidden(pattern, message, severity) ==
    /\ Len(forbidden) + Len(warnings) < Len(DEFAULT_FORBIDDEN_PATTERNS) + Len(DEFAULT_WARNING_PATTERNS) + MaxAdded
    /\ forbidden' = Append(forbidden, <<pattern, message, severity>>)
    /\ last' = Other([op |-> "add_forbidden"], [success |-> TRUE])
    /\ UNCHANGED <<on_file_loaded, queue_vars, resolver_vars, rigor_level, warnings, entries, loaded_files, script_exported,
                   output_dir, fs, now, figs, calls, executed>>

\* CodeScanner.add_warning
AddWarning(pattern, message, severity) ==
    /\ Len(forbidden) + Len(warnings) < Len(DEFAULT_FORBIDDEN_PATTERNS) + Len(DEFAULT_WARNING_PATTERNS) + MaxAdded
    /\ warnings' = Append(warnings, <<pattern, message, severity>>)
    /\ last' = Other([op |-> "add_warning"], [success |-> TRUE])
    /\ UNCHANGED <<on_file_loaded, queue_vars, resolver_vars, rigor_level, forbidden, entries, loaded_files, script_exported,
                   output_dir, fs, now, figs, calls, executed>>

\* the clock advances
Tick ==
    /\ now < MaxTime
    /\ now' = now + 1
    /\ last' = Other([op |-> "tick"], [success |-> TRUE])
    /\ UNCHANGED <<on_file_loaded, queue_vars, resolver_vars, rigor_level, forbidden, warnings, entries, loaded_files,
                   script_exported, output_dir, fs, figs, calls, executed>>

\* a call of validate_code
ValidateCode(code) ==
    /\ last' = Other([op |-> "validate_code", code |-> code], validate_code(code))
    /\ UNCHANGED <<on_file_loaded, queue_vars, resolver_vars, rigor_level, forbidden, warnings, entries, loaded_files,
                   script_exported, output_dir, fs, now, figs, calls, executed>>

\* a call of validate_data_integrity
ValidateData(arr) ==
    /\ last' = Other([op |-> "validate_data_integrity", data |-> arr],
                     validate_data_integrity(arr))
    /\ UNCHANGED <<on_file_loaded, queue_vars, resolver_vars, rigor_level, forbidden, warnings, entries, loaded_files,
                   script_exported, output_dir, fs, now, figs, calls, executed>>

(***************************************************************************)
(* web/figure_queue.py.  A Queue object is named by its number in          *)
(* queue_items; it lives on after its session is unregistered, for the     *)
(* threads that hold it.  A block under `with _lock` is one step.          *)
(***************************************************************************)
\* the thread a tool runs in and the thread of the websocket handler
Threads == {"tool", "websocket"}
SessionIds == {"s1", "s2"}
Figures == {"figure 1", "figure 2"}
Idle == [pc |-> "idle"]

Range(f) == {f[x] : x \in DOMAIN f}
\* the figures the threads hold: about to be put, or taken off a queue
RECURSIVE Held(_)
Held(T) ==
    IF T = {} THEN 0
    ELSE LET t == CHOOSE x \in T : TRUE
         IN (CASE threads[t].pc = "put" -> 1
               [] threads[t].pc = "drain" -> Len(threads[t].figures)
               [] OTHER -> 0) + Held(T \ {t})
InFlight == Held(DOMAIN threads)
RECURSIVE Queued(_)
Queued(qs) == IF qs = <<>> THEN 0 ELSE Len(Head(qs)) + Queued(Tail(qs))

queue_unchanged ==
    UNCHANGED <<rigor_level, forbidden, warnings, entries, loaded_files,
                script_exported, output_dir, fs, now, figs, calls, executed,
                on_file_loaded, resolver_vars>>

\* register_session: the session gets a new Queue unless it has one
RegisterSession(session_id) ==
    /\ session_id \in DOMAIN session_queues \/ Len(queue_items) < MaxQueues
    /\ IF session_id \in DOMAIN session_queues
       THEN UNCHANGED <<session_queues, queue_items>>
       ELSE /\ queue_items' = Append(queue_items, <<>>)
            /\ session_queues' = [s \in DOMAIN session_queues \cup {session_id} |->
                                     IF s = session_id THEN Len(queue_items) + 1
                                     ELSE session_queues[s]]
    /\ last' = Other([op |-> "register_session", session_id |-> session_id],
                     [queue |-> session_queues'[session_id]])
    /\ UNCHANGED threads
    /\ queue_unchanged

\* unregister_session: del _session_queues[session_id] if it is there
UnregisterSession(session_id) ==
    /\ session_queues' = [s \in DOMAIN session_queues \ {session_id} |->
                             session_queues[s]]
    /\ last' = Other([op |-> "unregister_session", session_id |-> session_id],
                     [success |-> TRUE])
    /\ UNCHANGED <<queue_items, threads>>
    /\ queue_unchanged

\* push_figure, the block under the lock: the session's queue is looked up;
\* without one the call returns False, else the thread leaves the lock
\* holding the queue
PushLookup(t, session_id, figure_data) ==
    /\ threads[t] = Idle
    /\ Queued(queue_items) + InFlight < MaxPushes
    /\ IF session_id \notin DOMAIN session_queues
       THEN /\ last' = Other([op |-> "push_figure", session_id |-> session_id,
                              figure_data |-> figure_data],
                             [returned |-> FALSE, enqueued |-> FALSE,
                              registered |-> FALSE])
            /\ UNCHANGED threads
       ELSE /\ threads' = [threads EXCEPT ![t] =
                              [pc |-> "put", session_id |-> session_id,
                               queue |-> session_queues[session_id],
                               figure_data |-> figure_data]]
            /\ UNCHANGED last
    /\ UNCHANGED <<session_queues, queue_items>>
    /\ queue_unchanged

\* push_figure, after the lock is released: queue.put_nowait(figure_data),
\* return True.  The result notes whether the queue was still a session's
\* when the figure was put on it.
PushPut(t) ==
    /\ threads[t].pc = "put"
    /\ queue_items' = [queue_items EXCEPT ![threads[t].queue] =
                          Append(@, threads[t].figure_data)]
    /\ threads' = [threads EXCEPT ![t] = Idle]
    /\ last' = Other([op |-> "push_figure", session_id |-> threads[t].session_id,
                      figure_data |-> threads[t].figure_data],
                     [returned |-> TRUE, enqueued |-> TRUE,
                      registered |-> threads[t].queue \in Range(session_queues)])
    /\ UNCHANGED session_queues
    /\ queue_unchanged

\* get_figures, the block under the lock
GetLookup(t, session_id) ==
    /\ threads[t] = Idle
    /\ IF session_id \notin DOMAIN session_queues
       THEN /\ last' = Other([op |-> "get_figures", session_id |-> session_id],
                             [figures |-> <<>>])
            /\ UNCHANGED threads
       ELSE /\ threads' = [threads EXCEPT ![t] =
                              [pc |-> "drain", session_id |-> session_id,
                               queue |-> session_queues[session_id],
                               figures |-> <<>>]]
            /\ UNCHANGED last
    /\ UNCHANGED <<session_queues, queue_items>>
    /\ queue_unchanged

\* get_figures, one turn of `while not queue.empty()`
GetDrain(t) ==
    /\ threads[t].pc = "drain"
    /\ LET q == threads[t].queue
       IN IF queue_items[q] = <<>>
          THEN /\ last' = Other([op |-> "get_figures",
                                 session_id |-> threads[t].session_id],
                                [figures |-> threads[t].figures])
               /\ threads' = [threads EXCEPT ![t] = Idle]
               /\ UNCHANGED queue_items
          ELSE /\ threads' = [threads EXCEPT ![t].figures =
                                 Append(@, Head(queue_items[q]))]
               /\ queue_items' = [queue_items EXCEPT ![q] = Tail(@)]
               /\ UNCHANGED last
    /\ UNCHANGED session_queues
    /\ queue_unchanged

(***************************************************************************)
(* data/resolver.py : BaseDataResolver.  The cache, a dict, is the         *)
(* sequence of its (key, value) items in insertion order.                  *)
(***************************************************************************)
ResolverPaths == {"/data/a.csv", "/data/b.csv", "/data/c.csv", "/data/x.zzz"}

\* Path(file_path).suffix.lower()
suffix(file_path) == IF file_path = "/data/x.zzz" THEN ".zzz" ELSE ".csv"
\* the extensions register_format was called with
format_loaders == {".csv"}

Keys(c) == {c[i][1] : i \in DOMAIN c}
Value(c, key) == (CHOOSE i \in DOMAIN c : c[i][1] = key)
\* self._cache[key] = value: a key already there keeps its place
SetItem(c, key, value) ==
    IF key \in Keys(c)
    THEN [i \in DOMAIN c |-> IF c[i][1] = key THEN <<key, value>> ELSE c[i]]
    ELSE Append(c, <<key, value>>)

\* _add_to_cache deleting the key inserted last
add_to_cache_evicts_newest(key, value) ==
    IF Len(cache) >= max_cache_size
    THEN SetItem(SubSeq(cache, 1, Len(cache) - 1), key, value)
    ELSE SetItem(cache, key, value)

\* _add_to_cache: the cache after the call; a full cache first loses
\* next(iter(self._cache)), its first key
add_to_cache(key, value) ==
    IF Len(cache) >= max_cache_size
    THEN SetItem(Tail(cache), key, value)
    ELSE SetItem(cache, key, value)

\* what the loader returns for its n-th invocation: the data it read then
Loaded(file_path) == <<file_path, Len(loader_calls) + 1>>

\* _load_file.  The loader returns the file's data or raises (a file that
\* cannot be read).
LoadFile(file_path) ==
    LET call == [op |-> "_load_file", file_path |-> file_path]
        unchanged_objects ==
            UNCHANGED <<rigor_level, forbidden, warnings, entries, loaded_files,
                        script_exported, output_dir, fs, now, figs, calls,
                        executed, on_file_loaded, queue_vars, use_cache,
                        max_cache_size>>
    IN
    /\ unchanged_objects
    /\ IF use_cache /\ file_path \in Keys(cache)
       THEN /\ last' = Other(call, [value |-> cache[Value(cache, file_path)][2],
                                    hit |-> TRUE])
            /\ UNCHANGED <<cache, loader_calls>>
       ELSE IF suffix(file_path) \notin format_loaders
       THEN /\ last' = [call |-> call, result |-> None, ran |-> FALSE,
                        archive |-> None, raised |-> Some("ValueError")]
            /\ UNCHANGED <<cache, loader_calls>>
       ELSE /\ Len(loader_calls) < MaxLoads
            /\ loader_calls' = Append(loader_calls, file_path)
            /\ \/ /\ last' = [call |-> call, result |-> None, ran |-> FALSE,
                              archive |-> None, raised |-> Some("OSError")]
                  /\ UNCHANGED cache
               \/ /\ last' = Other(call, [value |-> Loaded(file_path),
                                          hit |-> FALSE])
                  /\ cache' = IF use_cache
                              THEN add_to_cache(file_path, Loaded(file_path))
                              ELSE cache

\* clear_cache
ClearCache ==
    /\ cache' = <<>>
    /\ last' = Other([op |-> "clear_cache"], [success |-> TRUE])
    /\ UNCHANGED <<rigor_level, forbidden, warnings, entries, loaded_files,
                   script_exported, output_dir, fs, now, figs, calls, executed,
                   on_file_loaded, queue_vars, use_cache, max_cache_size,
                   loader_calls>>

\* _normalise_pattern: a 2-tuple gets the list's default severity
normalise_pattern(entry, default_severity) ==
    IF Len(entry) = 3 THEN <<entry[1], entry[2], entry[3]>>
    ELSE <<entry[1], entry[2], default_severity>>

\* the rules added beyond the defaults
AddedRules ==
    Len(forbidden) + Len(warnings)
       - Len(DEFAULT_FORBIDDEN_PATTERNS) - Len(DEFAULT_WARNING_PATTERNS)

\* CodeScanner.add_forbidden_batch
AddForbiddenBatch(patterns) ==
    /\ AddedRules + Len(patterns) <= MaxBatch
    /\ forbidden' = forbidden \o
          [i \in DOMAIN patterns |-> normalise_pattern(patterns[i], CRITICAL)]
    /\ last' = Other([op |-> "add_forbidden_batch"], [success |-> TRUE])
    /\ UNCHANGED <<on_file_loaded, queue_vars, resolver_vars, rigor_level, warnings, entries, loaded_files, script_exported,
                   output_dir, fs, now, figs, calls, executed>>

\* CodeScanner.add_warning_batch
AddWarningBatch(patterns) ==
    /\ AddedRules + Len(patterns) <= MaxBatch
    /\ warnings' = warnings \o
          [i \in DOMAIN patterns |-> normalise_pattern(patterns[i], WARNING)]
    /\ last' = Other([op |-> "add_warning_batch"], [success |-> TRUE])
    /\ UNCHANGED <<on_file_loaded, queue_vars, resolver_vars, rigor_level, forbidden, entries, loaded_files, script_exported,
                   output_dir, fs, now, figs, calls, executed>>

\* a call of CodeScanner.check
Check(code) ==
    /\ last' = Other([op |-> "check", code |-> code], check(code))
    /\ UNCHANGED <<on_file_loaded, queue_vars, resolver_vars, rigor_level, forbidden, warnings, entries, loaded_files,
                   script_exported, output_dir, fs, now, figs, calls, executed>>

(***************************************************************************)
(* Spec: the rigor gate.  A context without output directory, the scanner   *)
(* reconfigured at run time, calls with every combination of flags.        *)
(***************************************************************************)
\* no hook, no session registered, a resolver with the default cache and
\* no file loaded
InitQueues ==
    /\ session_queues = <<>>
    /\ queue_items = <<>>
    /\ threads = <<>>

InitResolver ==
    /\ use_cache = TRUE
    /\ max_cache_size = 50
    /\ cache = <<>>
    /\ loader_calls = <<>>

InitObjects ==
    /\ on_file_loaded = None
    /\ InitQueues
    /\ InitResolver

InitCommon ==
    /\ forbidden = DEFAULT_FORBIDDEN_PATTERNS
    /\ warnings = DEFAULT_WARNING_PATTERNS
    /\ entries = <<>>
    /\ loaded_files = <<>>
    /\ script_exported = FALSE
    /\ fs = <<>>
    /\ now = 0
    /\ figs = {}
    /\ calls = 0
    /\ executed = 0
    /\ last = Other([op |-> "init"], [success |-> TRUE])

Init ==
    /\ InitCommon
    /\ InitObjects
    /\ rigor_level \in RigorLevel
    /\ output_dir = None

GateCodes == {CodePlain, CodeSeed, CodeCrit, CodeBoth, CodeCustom}
GateContexts == {CtxNone, CtxZeros}

GateExecute ==
    \E code \in GateCodes, context \in GateContexts,
       confirmed \in BOOLEAN, enforce_rigor \in BOOLEAN :
        ExecuteCode(code, context, confirmed, enforce_rigor, TRUE, None)

GateSetRigor == \E level \in RigorLevel : SetRigor(level)

GateAddForbidden ==
    \E severity \in {CRITICAL, WARNING} :
        AddForbidden(CustomPattern, CustomMessage, severity)

GateAddWarning ==
    \E severity \in {CRITICAL, WARNING} :
        AddWarning(CustomPattern, CustomMessage, severity)

Next ==
    \/ GateExecute
    \/ GateSetRigor
    \/ GateAddForbidden
    \/ GateAddWarning

Spec == Init /\ [][Next]_vars

(***************************************************************************)
(* SpecLog: the session log and the export.  A context without output      *)
(* directory (nothing is archived); exports name their directory.          *)
(***************************************************************************)
InitLog ==
    /\ InitCommon
    /\ InitObjects
    /\ rigor_level = STANDARD
    /\ output_dir = None

LogCodes == {CodePlain, CodeSeed, CodeCrit, CodeRaise}
LogContexts == {CtxNone, CtxZeros}
ExportCodes == {CodePlain, CodeRaise, CodeBad}
ExportNames == {"reproducible_analysis.py"}
FilePaths == {"/data/a.abf", "/data/./a.abf"}

LogExecute ==
    \E code \in LogCodes, context \in LogContexts, confirmed \in BOOLEAN :
        ExecuteCode(code, context, confirmed, TRUE, TRUE, None)

LogExport ==
    \E code \in ExportCodes, filename \in ExportNames,
       out_arg \in {None, Some("out")} :
        SaveReproducibleScript(code, filename, out_arg)

LogFileLoad == \E file_path \in FilePaths : NotifyFileLoaded(file_path)

NextLog ==
    \/ LogExecute
    \/ LogExport
    \/ LogFileLoad
    \/ Retrieve
    \/ Clear

SpecLog == InitLog /\ [][NextLog]_vars

(***************************************************************************)
(* SpecArchive: the script archive.  The clock runs; calls with and        *)
(* without a resolved output directory, with and without the preamble.     *)
(***************************************************************************)
InitArchive ==
    /\ InitCommon
    /\ InitObjects
    /\ rigor_level = STANDARD
    /\ output_dir \in {None, Some("out")}

ArchiveCodes == {CodePlain, CodeSeed, CodeCrit, CodeRaise}

ArchiveExecute ==
    \E code \in ArchiveCodes, context \in LogContexts,
       inject_sanity_checks \in BOOLEAN, out_arg \in {None, Some("out")} :
        ExecuteCode(code, context, FALSE, TRUE, inject_sanity_checks, out_arg)

NextArchive ==
    \/ ArchiveExecute
    \/ Tick

SpecArchive == InitArchive /\ [][NextArchive]_vars

(***************************************************************************)
(* SpecScan: the scanner alone.  Rules are added one at a time and in       *)
(* batches of 2- and 3-tuples, the level changes, texts are scanned.       *)
(***************************************************************************)
ScanCodes == {CodePlain, CodeSeed, CodeCrit, CodeBoth, CodeCustom}
SeedPattern == "np.random.seed"
SeedMessage == "Seeding is not allowed here"

\* the batches a configuration passes: legacy 2-tuples and 3-tuples
Batches ==
    { << <<CustomPattern, CustomMessage>> >>,
      << <<CustomPattern, CustomMessage, WARNING>> >>,
      << <<CustomPattern, CustomMessage, CRITICAL>> >>,
      << <<SeedPattern, SeedMessage>>, <<CustomPattern, CustomMessage, CRITICAL>> >>,
      << <<SeedPattern, SeedMessage, CRITICAL>>, <<CustomPattern, CustomMessage>> >> }

ScanCheck == \E code \in ScanCodes : Check(code)

ScanAddForbiddenBatch == \E patterns \in Batches : AddForbiddenBatch(patterns)

ScanAddWarningBatch == \E patterns \in Batches : AddWarningBatch(patterns)

NextScan ==
    \/ ScanCheck
    \/ GateSetRigor
    \/ GateAddForbidden
    \/ GateAddWarning
    \/ ScanAddForbiddenBatch
    \/ ScanAddWarningBatch

SpecScan == Init /\ [][NextScan]_vars

(***************************************************************************)
(* SpecIntegrity: the data-integrity check.  Calls carry contexts with      *)
(* valid and invalid arrays, lists and scalars, at the default level.      *)
(***************************************************************************)
IntegrityCodes == {CodePlain, CodeSeed, CodeCrit}

IntegrityExecute ==
    \E code \in IntegrityCodes, context \in Contexts,
       confirmed \in BOOLEAN, enforce_rigor \in BOOLEAN :
        ExecuteCode(code, context, confirmed, enforce_rigor, TRUE, None)

NextIntegrity ==
    \/ IntegrityExecute
    \/ Clear

SpecIntegrity == InitLog /\ [][NextIntegrity]_vars

(***************************************************************************)
(* SpecFault: code that raises.  The texts complete, raise an Exception,    *)
(* fail to compile, or raise SystemExit; texts are also only validated.    *)
(***************************************************************************)
FaultCodes == {CodePlain, CodeRaise, CodeBad, CodeExit}

FaultExecute ==
    \E code \in FaultCodes, inject_sanity_checks \in BOOLEAN :
        ExecuteCode(code, CtxNone, FALSE, TRUE, inject_sanity_checks, None)

ValidateCodes == {CodePlain, CodeBad, CodeEval, CodeShell, CodeBadEval,
                  CodeRaise, CodeExit, CodeFig}

FaultValidate == \E code \in ValidateCodes : ValidateCode(code)

NextFault ==
    \/ FaultExecute
    \/ FaultValidate
    \/ Retrieve
    \/ Clear

SpecFault == InitLog /\ [][NextFault]_vars

(***************************************************************************)
(* SpecFiles: the loaded files.  Files are loaded under several spellings   *)
(* of their paths, between executions and session starts.                  *)
(***************************************************************************)
LoadPaths == {"/data/a.abf", "/data/./a.abf", "/data/b.abf", "/data/c.abf"}

FilesLoad == \E file_path \in LoadPaths : NotifyFileLoaded(file_path)

FilesExecute ==
    \E code \in {CodePlain, CodeRaise} :
        ExecuteCode(code, CtxNone, FALSE, TRUE, TRUE, None)

NextFiles ==
    \/ FilesLoad
    \/ FilesExecute
    \/ Retrieve
    \/ Clear

SpecFiles == InitLog /\ [][NextFiles]_vars

(***************************************************************************)
(* SpecFigures: code that opens figures, and completes or raises after     *)
(* opening them.                                                           *)
(***************************************************************************)
FigureCodes == {CodePlain, CodeFig, CodeFigRaise, CodeRaise}

FiguresExecute ==
    \E code \in FigureCodes, inject_sanity_checks \in BOOLEAN,
       out_arg \in {None, Some("out")} :
        ExecuteCode(code, CtxNone, FALSE, TRUE, inject_sanity_checks, out_arg)

NextFigures == FiguresExecute

SpecFigures == InitLog /\ [][NextFigures]_vars

(***************************************************************************)
(* SpecHook: files loaded on a context with or without a callback, between *)
(* session starts.                                                         *)
(***************************************************************************)
InitHook ==
    /\ InitCommon
    /\ InitQueues
    /\ InitResolver
    /\ rigor_level = STANDARD
    /\ output_dir \in {None, Some("out")}
    /\ on_file_loaded \in Hooks

HookLoad == \E file_path \in LoadPaths : NotifyFileLoaded(file_path)

NextHook ==
    \/ HookLoad
    \/ CreateSession

SpecHook == InitHook /\ [][NextHook]_vars

(***************************************************************************)
(* SpecRigor: the level of a context's scanner is changed between calls.   *)
(* The context starts at STANDARD with the default rules.                  *)
(***************************************************************************)
RigorCodes == {CodePlain, CodeSeed, CodeCrit}

RigorExecute ==
    \E code \in RigorCodes, confirmed \in BOOLEAN :
        ExecuteCode(code, CtxNone, confirmed, TRUE, TRUE, None)

RigorCheck == \E code \in RigorCodes : Check(code)

NextRigor ==
    \/ RigorExecute
    \/ RigorCheck
    \/ GateSetRigor

SpecRigor == InitLog /\ [][NextRigor]_vars

(***************************************************************************)
(* SpecWarnings: a context at RELAXED, where WARNING matches are plain     *)
(* warnings.  The code completes or raises; the injected arrays are valid, *)
(* valid with a warning, or invalid.                                       *)
(***************************************************************************)
InitWarnings ==
    /\ InitCommon
    /\ InitObjects
    /\ rigor_level = RELAXED
    /\ output_dir = None

WarningCodes == {CodePlain, CodeSeed, CodeSeedRaise, CodeBoth}
WarningContexts == {CtxNone, CtxNaN, CtxZeros}

WarningsExecute ==
    \E code \in WarningCodes, context \in WarningContexts, confirmed \in BOOLEAN :
        ExecuteCode(code, context, confirmed, TRUE, TRUE, None)

NextWarnings == WarningsExecute

SpecWarnings == InitWarnings /\ [][NextWarnings]_vars

(***************************************************************************)
(* SpecLegacy: calls of the legacy code_tools.execute_code, the scanner    *)
(* at any level.                                                           *)
(***************************************************************************)
LegacyCodes == {CodePlain, CodeSeed, CodeCrit, CodeRaise}
LegacyContexts == {CtxNone, CtxZeros}

LegacyExecute ==
    \E code \in LegacyCodes, context \in LegacyContexts,
       enforce_rigor \in BOOLEAN, out_arg \in {None, Some("out")} :
        LegacyExecuteCode(code, context, enforce_rigor, TRUE, out_arg)

NextLegacy ==
    \/ LegacyExecute
    \/ GateSetRigor

SpecLegacy == Init /\ [][NextLegacy]_vars

(***************************************************************************)
(* SpecQueue: threads registering and unregistering sessions, pushing      *)
(* figures and fetching them.                                              *)
(***************************************************************************)
InitQueue ==
    /\ InitCommon
    /\ InitResolver
    /\ rigor_level = STANDARD
    /\ output_dir = None
    /\ on_file_loaded = None
    /\ session_queues = <<>>
    /\ queue_items = <<>>
    /\ threads = [t \in Threads |-> Idle]

QueueRegister == \E session_id \in SessionIds : RegisterSession(session_id)
QueueUnregister == \E session_id \in SessionIds : UnregisterSession(session_id)
QueuePushLookup ==
    \E t \in Threads, session_id \in SessionIds, figure_data \in Figures :
        PushLookup(t, session_id, figure_data)
QueuePushPut == \E t \in Threads : PushPut(t)
QueueGetLookup == \E t \in Threads, session_id \in SessionIds : GetLookup(t, session_id)
QueueGetDrain == \E t \in Threads : GetDrain(t)

NextQueue ==
    \/ QueueRegister
    \/ QueueUnregister
    \/ QueuePushLookup
    \/ QueuePushPut
    \/ QueueGetLookup
    \/ QueueGetDrain

SpecQueue == InitQueue /\ [][NextQueue]_vars

(***************************************************************************)
(* SpecResolver: a resolver made with or without the cache, with a cache   *)
(* of 1 to MaxCacheSize entries; files are loaded, some again.             *)
(***************************************************************************)
InitResolverSpec ==
    /\ InitCommon
    /\ InitQueues
    /\ rigor_level = STANDARD
    /\ output_dir = None
    /\ on_file_loaded = None
    /\ use_cache \in BOOLEAN
    /\ max_cache_size \in 1..MaxCacheSize
    /\ cache = <<>>
    /\ loader_calls = <<>>

ResolverLoad == \E file_path \in ResolverPaths : LoadFile(file_path)

NextResolver ==
    \/ ResolverLoad
    \/ ClearCache

SpecResolver == InitResolverSpec /\ [][NextResolver]_vars

(***************************************************************************)
(* SpecValidator: the data-integrity validator on every array of up to     *)
(* MaxLen elements.                                                        *)
(***************************************************************************)
Elements == {"0", "0.1", "1", "nan", "inf"}
Arrays == UNION {[1..n -> Elements] : n \in 0..MaxLen}

ValidatorValidate == \E arr \in Arrays : ValidateData(arr)

NextValidator == ValidatorValidate

SpecValidator == InitLog /\ [][NextValidator]_vars

(***************************************************************************)
(* Claims about the rigor gate (checked under Spec)                        *)
(***************************************************************************)
IsExecute == last.call.op = "execute_code"
TheResult == CHOOSE r \in last.result : TRUE

\* the configured rules, pooled, and those whose pattern matches the text
AllRules == forbidden \o warnings
MatchingRules(code) == SelectSeq(AllRules, LAMBDA r : re_search(r[1], code))
MatchingMessages(code) ==
    [i \in DOMAIN MatchingRules(code) |-> MatchingRules(code)[i][2]]
MatchesSeverity(code, severity) ==
    \E i \in DOMAIN MatchingRules(code) : MatchingRules(code)[i][3] = severity

\* the routing table of the scanner's documentation
RoutingTable ==
    [strict |-> [critical |-> "violations", warning |-> "violations"],
     standard |-> [critical |-> "violations", warning |-> "needs_confirmation"],
     relaxed |-> [critical |-> "needs_confirmation", warning |-> "warnings"]]
RoutedTo(code, bucket) ==
    /\ rigor_level # BYPASS
    /\ \E i \in DOMAIN MatchingRules(code) :
          RoutingTable[rigor_level][MatchingRules(code)[i][3]] = bucket

IsRigorBlocked ==
    /\ IsExecute /\ ~last.ran /\ last.result # None
    /\ ~TheResult.success
    /\ TheResult.needs_confirmation = None
    /\ \E e \in TheResult.error : e[1] = "SCIENTIFIC RIGOR VIOLATION"
IsPending ==
    /\ IsExecute /\ ~last.ran /\ last.result # None
    /\ ~TheResult.success
    /\ TheResult.needs_confirmation = Some(TRUE)
IsIntegrityBlocked ==
    /\ IsExecute /\ ~last.ran /\ last.result # None
    /\ ~TheResult.success
    /\ TheResult.needs_confirmation = None
    /\ \E e \in TheResult.error : e[1] = "DATA INTEGRITY ISSUE"

OnlyWarningMatches(code) ==
    /\ MatchesSeverity(code, WARNING)
    /\ ~MatchesSeverity(code, CRITICAL)

\* C2: at STANDARD, for a text matching only WARNING rules, check returns no
\* violations and needs_confirmation = the matching rules' messages; a call
\* (rigor enforced) with confirmed=false returns needs_confirmation=true,
\* success=false, rigor_warnings = those messages and the instruction to
\* call again with confirmed=True, and does not run the code; and in every
\* result needs_confirmation=true implies success=false.
C2_StandardWarningNeedsConfirmation ==
    /\ \A code \in Codes :
          (rigor_level = STANDARD /\ OnlyWarningMatches(code)) =>
             /\ check(code).violations = <<>>
             /\ check(code).needs_confirmation = MatchingMessages(code)
             /\ check(code).passed
    /\ (/\ IsExecute
        /\ rigor_level = STANDARD
        /\ last.call.enforce_rigor
        /\ ~last.call.confirmed
        /\ OnlyWarningMatches(last.call.code))
       => /\ IsPending
          /\ TheResult.rigor_warnings = Some(MatchingMessages(last.call.code))
          /\ \E m \in TheResult.message :
                /\ m[1] = "RIGOR WARNING: re-call execute_code with confirmed=True"
                /\ m[2] = MatchingMessages(last.call.code)
          /\ TheResult.error = None
    /\ (IsExecute /\ last.result # None /\ TheResult.needs_confirmation = Some(TRUE))
       => ~TheResult.success

C2_Witness ==
    /\ IsPending
    /\ rigor_level = STANDARD
    /\ ~last.call.confirmed
    /\ last.call.code = CodeSeed
    /\ TheResult.rigor_warnings = Some(<<"Random seed set">>)

\* what a call does, as a function of its arguments and the scanner's
\* current level and rules alone
ExpectedOutcome(call) ==
    IF call.enforce_rigor /\ RoutedTo(call.code, "violations") THEN "blocked"
    ELSE IF /\ call.enforce_rigor
            /\ RoutedTo(call.code, "needs_confirmation")
            /\ ~call.confirmed THEN "pending"
    ELSE IF \E i \in DOMAIN call.context :
               /\ call.context[i][2].kind = "ndarray"
               /\ ~validate_data_integrity(call.context[i][2].data).valid
         THEN "blocked"
    ELSE "executed"

Outcome ==
    IF last.ran THEN "executed"
    ELSE IF IsPending THEN "pending"
    ELSE "blocked"

\* C3: a confirmed=true call on code with no violations and a non-empty
\* needs_confirmation list passes the rigor check (and runs, the injected
\* data being valid) whatever calls came before; the outcome class of every
\* call is a function of its arguments and the scanner's current rules and
\* level.
C3_NoPendingState ==
    IsExecute =>
       /\ Outcome = ExpectedOutcome(last.call)
       /\ (/\ last.call.confirmed
           /\ last.call.enforce_rigor
           /\ check(last.call.code).violations = <<>>
           /\ check(last.call.code).needs_confirmation # <<>>)
          => /\ ~IsRigorBlocked /\ ~IsPending
             /\ last.call.context = CtxNone => last.ran

\* the first call of a context is made with confirmed=true on code that
\* needs confirmation, and it runs
C3_Witness ==
    /\ IsExecute
    /\ calls = 1
    /\ last.call.confirmed
    /\ last.call.enforce_rigor
    /\ check(last.call.code).needs_confirmation # <<>>
    /\ last.ran

(***************************************************************************)
(* Claims about the session log and the export (checked under SpecLog)     *)
(***************************************************************************)
\* this step is an execute_code call / a call that returned
ExecuteStep == last'.call.op = "execute_code" /\ calls' = calls + 1
Returned == last'.result # None
NewResult == CHOOSE r \in last'.result : TRUE

\* C4 as stated: every execute_code call that returns appends exactly one
\* entry to the session log, and a call blocked before execution is logged
\* with success=false.
C4_EveryCallLogged ==
    [][(ExecuteStep /\ Returned) =>
          /\ Len(entries') = Len(entries) + 1
          /\ SubSeq(entries', 1, Len(entries)) = entries
          /\ ~last'.ran => ~entries'[Len(entries')].success]_vars

\* C4 amended: an execute_code call that passes the rigor and data-integrity
\* checks and returns appends exactly one entry, holding the executed text,
\* the next step number and the run's success; a call that is blocked before
\* execution (rigor violation, pending confirmation, data-integrity failure)
\* returns without appending anything: the log is left as it was.
C4_OnlyExecutedCallsLogged ==
    [][(ExecuteStep /\ Returned) =>
          IF last'.ran
          THEN /\ Len(entries') = Len(entries) + 1
               /\ SubSeq(entries', 1, Len(entries)) = entries
               /\ entries'[Len(entries')].step = Len(entries) + 1
               /\ entries'[Len(entries')].success = NewResult.success
               /\ entries'[Len(entries')].code =
                     prepared(last'.call.code, last'.call.inject_sanity_checks)
          ELSE /\ entries' = entries
               /\ ~NewResult.success]_vars

\* one call ran and was logged, the next was blocked and was not
C4_Witness ==
    /\ IsExecute /\ ~last.ran /\ last.result # None
    /\ calls = 2
    /\ Len(entries) = 1

IsRetrieve == last.call.op = "retrieve_session_log"

\* C5 as stated: retrieve_session_log reports total_steps equal to the
\* number of execute_code calls made since the last clear().
C5_TotalStepsCountsCalls ==
    IsRetrieve => TheResult.summary.total_steps = calls

\* C5 amended: after N execute_code calls with mixed outcomes and no clear()
\* in between, retrieve_session_log reports total_steps equal to the number
\* of those calls that ran the code (successfully or raising); the calls
\* blocked by a violation, pending confirmation or data integrity are not
\* counted, so total_steps <= N.
C5_TotalStepsCountsExecuted ==
    IsRetrieve =>
       /\ TheResult.summary.total_steps = executed
       /\ TheResult.summary.total_steps <= calls
       /\ Len(TheResult.entries) = executed

\* two calls, one executed (and raised), one blocked: total_steps is 1
C5_Witness ==
    /\ IsRetrieve
    /\ calls = 2
    /\ TheResult.summary.total_steps = 1
    /\ TheResult.summary.failed_steps = 1

IsExport == last.call.op = "save_reproducible_script"
ExportStep == last'.call.op = "save_reproducible_script"

\* C8: save_reproducible_script with code that does not parse returns
\* success=false and changes nothing: no file is created or modified, and
\* the log's script_exported flag, entries and loaded files stay as they are.
C8_BadExportChangesNothing ==
    [][(ExportStep /\ last'.call.code = CodeBad) =>
          /\ ~NewResult.success
          /\ NewResult.path = None
          /\ fs' = fs
          /\ script_exported' = script_exported
          /\ entries' = entries
          /\ loaded_files' = loaded_files]_vars

\* a failed export of unparseable code over an existing exported file
C8_Witness ==
    /\ IsExport
    /\ last.call.code = CodeBad
    /\ ~TheResult.success
    /\ last.call.before # None
    /\ \E d \in last.call.out_arg :
          fs[export_dest(last.call.filename, d)] \in last.call.before

\* C9: after a successful save_reproducible_script the file of that name
\* under the output directory holds exactly the code of that call: the
\* earlier text of the file is replaced, nothing is appended and no log
\* entry's code is added.
C9_ExportOverwrites ==
    (IsExport /\ TheResult.success) =>
        \E dest \in TheResult.path :
            /\ dest \in DOMAIN fs
            /\ fs[dest] = last.call.code
            /\ \E d \in resolved_out(last.call.out_arg) :
                  dest = export_dest(last.call.filename, d)

\* a second successful export of the same name with another text, made
\* while the log holds entries
C9_Witness ==
    /\ IsExport /\ TheResult.success
    /\ last.call.before # None
    /\ last.call.before # Some(last.call.code)
    /\ has_entries
    /\ \E dest \in TheResult.path : fs[dest] = last.call.code

\* C10: a successful save_reproducible_script sets script_exported, and once
\* set the flag stays set through every operation except clear().
C10_ExportLatch ==
    /\ []((IsExport /\ TheResult.success) => script_exported)
    /\ [][(script_exported /\ ~script_exported') => last'.call.op = "clear"]_vars

\* the flag is still set after a later export failed
C10_Witness ==
    /\ script_exported
    /\ IsExport
    /\ ~TheResult.success

(***************************************************************************)
(* Claims about the script archive (checked under SpecArchive)             *)
(***************************************************************************)
\* the directory and the text of the call of this step
StepDir == resolved_out(last'.call.out_arg)
StepText == prepared(last'.call.code, last'.call.inject_sanity_checks)

\* C6 as stated: every execute_code call with a resolved output directory
\* that returns leaves one new file under scripts/, whatever its outcome.
C6_EveryCallArchived ==
    [][(ExecuteStep /\ Returned /\ StepDir # None) =>
          Cardinality(ScriptFiles') = Cardinality(ScriptFiles) + 1]_vars

\* C6 amended: an execute_code call with a resolved output directory that
\* passes the rigor and data-integrity checks writes its archive file under
\* scripts/ (named by the clock second and the short content hash, holding
\* the executed text) whether the code then runs to completion or raises,
\* and leaves the other archive files alone; a call that ends blocked by a
\* violation, pending confirmation or data integrity writes no file.
C6_PassedCallsArchived ==
    [][(ExecuteStep /\ StepDir # None) =>
          IF last'.ran
          THEN \E d \in StepDir :
                  LET dest == <<d, "scripts", <<"script", stamp, short_hash(StepText)>>>>
                  IN /\ last'.archive = Some(dest)
                     /\ ScriptFiles' = ScriptFiles \cup {dest}
                     /\ fs'[dest] = StepText
                     /\ \A q \in ScriptFiles \ {dest} : fs'[q] = fs[q]
          ELSE fs' = fs]_vars

\* a call whose code raised has left its archive file
C6_Witness ==
    /\ IsExecute /\ last.ran /\ last.result # None
    /\ ~TheResult.success
    /\ \E dest \in last.archive : dest \in ScriptFiles

\* C7 as stated: every archived call adds a file to scripts/, so that k
\* archived calls leave k files, at whatever times they are made.
C7_ArchiveNeverOverwrites ==
    [][(ExecuteStep /\ last'.archive # None) =>
          Cardinality(ScriptFiles') = Cardinality(ScriptFiles) + 1]_vars

\* C7 amended: archived calls made in different clock seconds, or of texts
\* with different short hashes, go to distinct files; an archived call
\* replaces a file only if that file was written in the same clock second
\* from a text of the same short hash (as a second run of identical code
\* within one second is), so that k archived calls leave at most k files.
C7_ArchiveOverwritesOnlySameSecond ==
    /\ [](Cardinality(ScriptFiles) <= calls)
    /\ [](\A p \in ScriptFiles : p[3][3] = short_hash(fs[p]))
    /\ [][(ExecuteStep /\ last'.archive # None) =>
             \E dest \in last'.archive :
                IF dest \in ScriptFiles
                THEN /\ ScriptFiles' = ScriptFiles
                     /\ dest[3][2] = stamp
                     /\ short_hash(fs[dest]) = short_hash(StepText)
                ELSE /\ ScriptFiles' = ScriptFiles \cup {dest}
                     /\ Cardinality(ScriptFiles') = Cardinality(ScriptFiles) + 1]_vars

\* identical code archived in two different seconds: two files, same text
C7_Witness ==
    \E p, q \in ScriptFiles : p # q /\ fs[p] = fs[q]

(***************************************************************************)
(* Claims about the scanner (checked under SpecScan and Spec)              *)
(***************************************************************************)
IsCheck == last.call.op = "check"

\* the messages of the matching rules, in order, that the documented
\* table sends to `bucket` at the current level
TableBucket(code, bucket) ==
    LET routed == SelectSeq(MatchingRules(code),
                     LAMBDA r : RoutingTable[rigor_level][r[3]] = bucket)
    IN [i \in DOMAIN routed |-> routed[i][2]]

HasRule(rules, rule) == \E i \in DOMAIN rules : rules[i] = rule

\* C11: at STANDARD and RELAXED, check routes the message of every matching
\* rule by its severity alone (STANDARD: CRITICAL to violations, WARNING to
\* needs_confirmation; RELAXED: CRITICAL to needs_confirmation, WARNING to
\* warnings), whichever list the rule is in and however it was added; every
\* matching rule's message is in exactly one bucket, and passed is true
\* exactly when violations is empty.
C11_RoutesBySeverityAlone ==
    (IsCheck /\ rigor_level \in {STANDARD, RELAXED}) =>
        LET r == TheResult
            code == last.call.code
        IN /\ r.violations = TableBucket(code, "violations")
           /\ r.needs_confirmation = TableBucket(code, "needs_confirmation")
           /\ r.warnings = TableBucket(code, "warnings")
           /\ Len(r.violations) + Len(r.needs_confirmation) + Len(r.warnings)
                 = Len(MatchingRules(code))
           /\ r.passed <=> (r.violations = <<>>)

\* a WARNING rule of the forbidden list and a CRITICAL rule of the warning
\* list both match at STANDARD: the first asks confirmation, the second blocks
C11_Witness ==
    /\ IsCheck
    /\ rigor_level = STANDARD
    /\ last.call.code = CodeCustom
    /\ HasRule(forbidden, <<CustomPattern, CustomMessage, WARNING>>)
    /\ HasRule(warnings, <<CustomPattern, CustomMessage, CRITICAL>>)
    /\ TheResult.violations = <<CustomMessage>>
    /\ TheResult.needs_confirmation = <<CustomMessage>>
    /\ ~TheResult.passed

\* C12: at BYPASS, check returns passed=true and three empty lists for
\* every text and every rule set, CRITICAL rules added with add_forbidden
\* included.
C12_BypassAllEmpty ==
    (IsCheck /\ rigor_level = BYPASS) =>
        /\ TheResult.passed
        /\ TheResult.violations = <<>>
        /\ TheResult.needs_confirmation = <<>>
        /\ TheResult.warnings = <<>>

\* a text matching an added CRITICAL forbidden rule, scanned at BYPASS
C12_Witness ==
    /\ IsCheck
    /\ rigor_level = BYPASS
    /\ last.call.code = CodeCustom
    /\ HasRule(forbidden, <<CustomPattern, CustomMessage, CRITICAL>>)
    /\ MatchesSeverity(CodeCustom, CRITICAL)
    /\ TheResult.passed

\* C13: at STRICT, check of a text matching at least one rule (of either
\* severity) returns passed=false, needs_confirmation is empty for every
\* text, and no execute_code call returns needs_confirmation=true.
C13_StrictNeverAsks ==
    rigor_level = STRICT =>
        /\ \A code \in GateCodes :
              /\ check(code).needs_confirmation = <<>>
              /\ MatchingRules(code) # <<>> => ~check(code).passed
        /\ (IsExecute /\ last.result # None) =>
              TheResult.needs_confirmation # Some(TRUE)

\* a confirmed call at STRICT whose text matches only a WARNING rule is
\* blocked as a violation
C13_Witness ==
    /\ rigor_level = STRICT
    /\ IsExecute
    /\ last.call.code = CodeSeed
    /\ last.call.confirmed /\ last.call.enforce_rigor
    /\ ~MatchesSeverity(CodeSeed, CRITICAL)
    /\ IsRigorBlocked

(***************************************************************************)
(* Claims about retrieve_session_log (checked under SpecLog)               *)
(***************************************************************************)
\* C14: retrieve_session_log on a log with no entries returns total_steps,
\* successful_steps and failed_steps 0, an empty entries list and an
\* explanatory message.
C14_EmptyLogAllZero ==
    (IsRetrieve /\ ~has_entries) =>
        /\ TheResult.summary.total_steps = 0
        /\ TheResult.summary.successful_steps = 0
        /\ TheResult.summary.failed_steps = 0
        /\ TheResult.entries = <<>>
        /\ TheResult.message # None

\* the log is retrieved after a clear() that followed an export: the file
\* is there, the latch is reset and the log holds nothing
C14_Witness ==
    /\ IsRetrieve
    /\ ~has_entries
    /\ fs # <<>>
    /\ ~script_exported
    /\ TheResult.summary.total_steps = 0
    /\ TheResult.message # None

\* C15 as stated: the summary returned by retrieve_session_log always has
\* the five fields total_steps, successful_steps, failed_steps, loaded_files
\* and script_exported, loaded_files being the log's file list and
\* script_exported the log's latch, also before any code was executed.
C15_SummaryFiveFields ==
    IsRetrieve =>
        /\ DOMAIN TheResult.summary =
              {"total_steps", "successful_steps", "failed_steps",
               "loaded_files", "script_exported"}
        /\ TheResult.summary.loaded_files = loaded_files
        /\ TheResult.summary.script_exported = script_exported

(***************************************************************************)
(* Claims about the data-integrity check (checked under SpecIntegrity)     *)
(***************************************************************************)
\* the context holds an entry of one of `kinds` that
\* validate_data_integrity reports invalid
HoldsInvalid(context, kinds) ==
    \E i \in DOMAIN context :
        /\ context[i][2].kind \in kinds
        /\ ~validate_data_integrity(context[i][2].data).valid

\* C16 as stated: a call whose context holds an array-like entry (a NumPy
\* array or a list) that the validator reports invalid ends with
\* success=false and its code is not executed, whatever confirmed is.
C16_InvalidArrayLikeBlocks ==
    (IsExecute /\ HoldsInvalid(last.call.context, {"ndarray", "list"})) =>
        /\ ~last.ran
        /\ ~TheResult.success

\* C16 amended: a call whose context holds a NumPy array (an np.ndarray
\* instance) that the validator reports invalid ends with success=false and
\* its code is not executed or logged, for confirmed=false and
\* confirmed=true alike; when the rigor check passes or is switched off the
\* result is the data-integrity failure listing the first invalid array's
\* issues.  Entries that are not np.ndarray instances (lists, scalars) are
\* not validated.
C16_InvalidArrayBlocks ==
    /\ [](IsExecute /\ HoldsInvalid(last.call.context, {"ndarray"}) =>
             /\ ~last.ran
             /\ last.result # None
             /\ ~TheResult.success
             /\ last.archive = None
             /\ (last.call.confirmed \/ ~last.call.enforce_rigor
                   \/ check(last.call.code).needs_confirmation = <<>>)
                /\ (~last.call.enforce_rigor \/ check(last.call.code).passed)
                => IsIntegrityBlocked)
    /\ [][(ExecuteStep /\ HoldsInvalid(last'.call.context, {"ndarray"})) =>
             entries' = entries]_vars

\* a confirmed call with a pending-class text and an invalid array that
\* comes after a valid one: blocked by data integrity
C16_Witness ==
    /\ IsIntegrityBlocked
    /\ last.call.confirmed /\ last.call.enforce_rigor
    /\ last.call.code = CodeSeed
    /\ last.call.context = CtxLate
    /\ has_entries

(***************************************************************************)
(* Claims about raising code (checked under SpecFault)                     *)
(***************************************************************************)
\* C17 as stated: whatever the executed code raises, execute_code returns
\* a result to its caller (nothing propagates) with success=false, the
\* error holding the exception and the output what was printed up to the
\* fault, and the attempt is appended to the session log.
C17_NeverPropagates ==
    [][(ExecuteStep /\ last'.ran) =>
          /\ last'.raised = None
          /\ Returned
          /\ Len(entries') = Len(entries) + 1
          /\ exec(StepText).raised # None =>
                /\ ~NewResult.success
                /\ NewResult.error # None
                /\ NewResult.output = exec(StepText).output
                /\ ~entries'[Len(entries')].success]_vars

(***************************************************************************)
(* Claims about the log's entries (checked under SpecLog)                  *)
(***************************************************************************)
\* C18: the entries are append-only with consecutive 1-based step numbers:
\* the i-th entry since the last clear() has step i, every operation but
\* clear() leaves the earlier entries as they are (it appends at most one),
\* and clear() empties the log so that the next entry has step 1.
C18_AppendOnlySteps ==
    /\ [](\A i \in DOMAIN entries : entries[i].step = i)
    /\ [][IF last'.call.op = "clear"
          THEN entries' = <<>>
          ELSE /\ Len(entries') \in {Len(entries), Len(entries) + 1}
               /\ SubSeq(entries', 1, Len(entries)) = entries
               /\ last'.call.op # "execute_code" => entries' = entries]_vars

\* the first entry recorded after a clear() that followed an export: the
\* exported file is there, the latch is reset, the entry has step 1
C18_Witness ==
    /\ IsExecute /\ last.ran
    /\ fs # <<>>
    /\ ~script_exported
    /\ Len(entries) = 1
    /\ entries[1].step = 1

(***************************************************************************)
(* Claims about the loaded files (checked under SpecFiles)                 *)
(***************************************************************************)
IsLoad == last.call.op = "notify_file_loaded"
Listed(files, path) == \E i \in DOMAIN files : files[i] = path

\* C19: loaded_files is a deduplicated, insertion-ordered set: no canonical
\* path is in it twice, a load keeps the paths already there in their order
\* and puts a new canonical path last, and loading a path already recorded
\* (under any spelling) changes nothing.
C19_LoadedFilesOrderedSet ==
    /\ [](\A i, j \in DOMAIN loaded_files :
             loaded_files[i] = loaded_files[j] => i = j)
    /\ [](IsLoad => Listed(loaded_files, resolve(last.call.file_path)))
    /\ [][last'.call.op = "notify_file_loaded" =>
             /\ SubSeq(loaded_files', 1, Len(loaded_files)) = loaded_files
             /\ Len(loaded_files') <= Len(loaded_files) + 1
             /\ Listed(loaded_files, resolve(last'.call.file_path))
                   => loaded_files' = loaded_files]_vars
    /\ [][last'.call.op \notin {"notify_file_loaded", "clear"} =>
             loaded_files' = loaded_files]_vars

\* b was loaded first, then a, then a again under another spelling
C19_Witness ==
    /\ IsLoad
    /\ last.call.file_path = "/data/./a.abf"
    /\ loaded_files = <<"/data/b.abf", "/data/a.abf">>

(***************************************************************************)
(* Claims about validate_code (checked under SpecFault)                    *)
(***************************************************************************)
IsValidate == last.call.op = "validate_code"

IsValidateData == last.call.op = "validate_data_integrity"
TheData == last.call.data
AllAre(arr, S) == Len(arr) > 0 /\ \A i \in DOMAIN arr : arr[i] \in S
Constant(arr) == Len(arr) > 0 /\ \A i \in DOMAIN arr : arr[i] = arr[1]
Finite(arr) == SelectSeq(arr, LAMBDA x : x \notin {"nan", "inf"})

C22_ArchiveHoldsSubmittedText ==
    [][ExecuteStep =>
          \A dest \in last'.archive : fs'[dest] = last'.call.code]_vars

\* C22 amended: the text written to the archive file of an execute_code
\* call equals the text that is executed: the submitted code when
\* inject_sanity_checks is false, and the sanity-check preamble followed by
\* the submitted code when inject_sanity_checks is true.
C22_ArchiveHoldsExecutedText ==
    [][ExecuteStep =>
          \A dest \in last'.archive :
              fs'[dest] = IF last'.call.inject_sanity_checks
                          THEN SANITY_CHECK_HEADER \o last'.call.code
                          ELSE last'.call.code]_vars

\* a call with the preamble injected has archived a text that begins with
\* the preamble and is not the submitted text
C22_Witness ==
    /\ IsExecute /\ last.call.inject_sanity_checks
    /\ \E dest \in last.archive :
          /\ fs[dest] # last.call.code
          /\ SubSeq(fs[dest], 1, Len(SANITY_CHECK_HEADER)) = SANITY_CHECK_HEADER

(***************************************************************************)
(* Claims about the figure registry (checked under SpecFigures)            *)
(***************************************************************************)
\* the figures of the new result, as a set of figure numbers
NewFigures == {NewResult.figures[i] : i \in DOMAIN NewResult.figures}

\* C23: when execute_code returns, the global figure registry is empty,
\* whether the code ran to completion or raised; and the figures of a
\* result are figures the call itself opened, never figures open before it.
C23_RegistryDrained ==
    /\ []((IsExecute /\ last.result # None) => figs = {})
    /\ [][(ExecuteStep /\ Returned) => NewFigures \cap figs = {}]_vars

(***************************************************************************)
(* Claims about the file-loaded callback (checked under SpecHook)          *)
(***************************************************************************)
TheHookCall == CHOOSE h \in TheResult.hook : TRUE

C25_LevelReadOnEveryScan ==
    /\ [](IsCheck => TheResult = check(last.call.code))
    /\ [](IsExecute => Outcome = ExpectedOutcome(last.call))
    /\ \A code \in RigorCodes :
          []((IsPending /\ rigor_level = STANDARD /\ last.call.code = code) =>
               []((IsExecute /\ last.call.code = code) =>
                     /\ (rigor_level = STRICT /\ last.call.confirmed) =>
                            IsRigorBlocked
                     /\ rigor_level = BYPASS =>
                            /\ last.ran /\ last.result # None
                            /\ TheResult.rigor_warnings = None
                            /\ TheResult.needs_confirmation = None))

\* a second call, confirmed, on a text that asks for confirmation at
\* STANDARD is blocked as a violation, the level having been changed from
\* STANDARD to STRICT
C25_Witness ==
    /\ IsRigorBlocked
    /\ rigor_level = STRICT
    /\ calls = 2 /\ executed = 0
    /\ last.call.confirmed
    /\ last.call.code = CodeSeed
    /\ forbidden = DEFAULT_FORBIDDEN_PATTERNS /\ warnings = DEFAULT_WARNING_PATTERNS

(***************************************************************************)
(* Claims about plain warnings (checked under SpecWarnings)                *)
(***************************************************************************)
\* the messages of the result's rigor_warnings (None: no message)
ReportedWarnings ==
    IF TheResult.rigor_warnings = None THEN {}
    ELSE LET w == CHOOSE x \in TheResult.rigor_warnings : TRUE
         IN {w[i] : i \in DOMAIN w}
ScanWarnings(code) ==
    {check(code).warnings[i] : i \in DOMAIN check(code).warnings}
PastRigorGate ==
    /\ IsExecute /\ last.result # None /\ last.call.enforce_rigor
    /\ ~IsRigorBlocked /\ ~IsPending

\* C26: whenever a call gets past the rigor gate, every message the scan
\* placed in warnings is among the rigor_warnings of the result it returns,
\* whether the code then completes or raises.
C26_WarningsAlwaysReported ==
    PastRigorGate => ScanWarnings(last.call.code) \subseteq ReportedWarnings

(***************************************************************************)
(* Claims about the summary's counts (checked under SpecLog)               *)
(***************************************************************************)
\* C27: in every reachable state of the log, summary() has
\* successful_steps + failed_steps = total_steps = the number of entries,
\* after any interleaving of record, record_file_load, export and clear.
C27_SummaryCountsAddUp ==
    /\ summary.successful_steps + summary.failed_steps = summary.total_steps
    /\ summary.total_steps = Len(entries)

\* a log with a step that succeeded and one that failed, a file loaded and
\* a script exported
C27_Witness ==
    /\ summary.successful_steps = 1
    /\ summary.failed_steps = 1
    /\ summary.total_steps = 2
    /\ loaded_files # <<>>
    /\ script_exported

(***************************************************************************)
(* Claims about the legacy execute_code (checked under SpecLegacy)         *)
(***************************************************************************)
IsLegacyExecute == last.call.op = "code_tools.execute_code"

\* C29: the legacy execute_code runs the code only if the sandbox's
\* execute_code, called with confirmed=false on the same text, context,
\* rules and level, would run it (its rigor gate passes and the injected
\* arrays are valid); it never runs code for which the scanner reports a
\* non-empty needs_confirmation list.
C29_LegacyRefinesSandbox ==
    (IsLegacyExecute /\ last.ran) =>
        /\ rigor_gate(last.call.code, FALSE, last.call.enforce_rigor) = "pass"
        /\ integrity_gate(last.call.context, <<>>).valid
        /\ last.call.enforce_rigor => check(last.call.code).needs_confirmation = <<>>

(***************************************************************************)
(* Claims about the figure queue (checked under SpecQueue)                 *)
(***************************************************************************)
IsPush == last.call.op = "push_figure"

\* C28: under any interleaving of push_figure and unregister_session in
\* different threads, push_figure never returns True after placing the
\* figure on a queue that unregister_session has already removed; and a
\* push to a session that is not registered returns False and enqueues
\* nothing.
C28_PushSafeAgainstRemoval ==
    /\ []((IsPush /\ TheResult.returned) => TheResult.registered)
    /\ [][\A t \in Threads, session_id \in SessionIds, figure_data \in Figures :
            (PushLookup(t, session_id, figure_data)
               /\ session_id \notin DOMAIN session_queues) =>
                 /\ last'.call.op = "push_figure"
                 /\ ~(CHOOSE r \in last'.result : TRUE).returned
                 /\ queue_items' = queue_items]_vars

(***************************************************************************)
(* Claims about the resolver's cache (checked under SpecResolver)          *)
(***************************************************************************)
LoadStep == last'.call.op = "_load_file" /\ last' # last
\* the key of the cache whose value the loader returned earliest
Earliest(c) == CHOOSE k \in Keys(c) :
                  \A j \in DOMAIN c : c[Value(c, k)][2][2] <= c[j][2][2]

\* C30: with use_cache=true and max_cache_size >= 1 the cache never holds
\* more than max_cache_size entries; a load that misses a full cache evicts
\* the key inserted earliest and no other, hits never having moved a key;
\* and a hit returns the stored value, invokes no loader and leaves the
\* cache as it is.
C30_CacheBoundedFifo ==
    /\ []((use_cache /\ max_cache_size >= 1) => Len(cache) <= max_cache_size)
    /\ [][(LoadStep /\ use_cache /\ last'.result # None) =>
            LET key == last'.call.file_path
            IN IF key \in Keys(cache)
               THEN /\ NewResult.value = cache[Value(cache, key)][2]
                    /\ NewResult.hit
                    /\ loader_calls' = loader_calls
                    /\ cache' = cache
               ELSE /\ loader_calls' = Append(loader_calls, key)
                    /\ key \in Keys(cache')
                    /\ IF Len(cache) = max_cache_size
                       THEN Keys(cache') = (Keys(cache) \ {Earliest(cache)}) \cup {key}
                       ELSE Keys(cache') = Keys(cache) \cup {key}]_vars

\* three files were loaded into a cache of two, the first was then asked
\* for again and loaded again: it had been evicted, and its reload evicted
\* the second
C30_Witness ==
    /\ use_cache /\ max_cache_size = 2
    /\ Len(loader_calls) = 4
    /\ loader_calls[4] = loader_calls[1]
    /\ Keys(cache) = {loader_calls[3], loader_calls[4]}
    /\ Cardinality(Keys(cache)) = 2
    /\ loader_calls[2] \notin Keys(cache)
    /\ last.call.op = "_load_file" /\ last.result # None /\ ~TheResult.hit

====
